---- MODULE Spec2Model ----
(***************************************************************************)
(* vAttention CUDA paging engine (vattention/cudaInternal.h):              *)
(*   do_cuda_default_init, reserve_cuda_pages, map_cuda_pages and          *)
(*   do_cuda_kvcache_cleanup, with the CUDA driver as a simulated backend. *)
(*                                                                         *)
(* One control thread runs init, reserve and cleanup; the worker threads   *)
(* of Threads call map_cuda_pages concurrently.  exit(1) is modelled by    *)
(* halted = TRUE, after which no action is enabled.                        *)
(***************************************************************************)
EXTENDS Integers, Sequences, FiniteSets, TLC

(* ------------------------------ bounds -------------------------------- *)

\* the configured page_size (model units)
PageSize == 2
\* map_cuda_pages calls started over the whole run
MaxCalls == 2
\* largest page count the sizing policy returns
MaxTarget == 2
\* backend failures injected into one run of the cleanup
MaxFaults == 1
\* runs of do_cuda_kvcache_cleanup
MaxTeardowns == 2

(* ---------------------------- input domains --------------------------- *)

Threads == {"w1", "w2"}
NoThread == "none"

ReqIds == {1, 2}
\* layer_idx values a caller passes: a layer of k_tensors, and one past its end
LayerIdxs == {1, 2}
\* req_offset values a caller passes: one misaligned, one aligned
Offsets == {1, PageSize}
\* data_ptr() of the per-layer key and value tensors
k_tensors == <<10, 20>>
v_tensors == <<30, 40>>
\* (kcache_ptr, vcache_ptr) pairs a caller passes; 0 is the null pointer
BasePairs == {<<10, 30>>, <<20, 40>>, <<0, 40>>, <<20, 0>>}
\* (k_page, v_page) pairs a caller passes; 0 is the null handle
PagePairs == {<<1, 2>>, <<2, 1>>, <<0, 1>>, <<1, 0>>}
\* what cuMemGetAllocationGranularity may report
Granularities == {PageSize, 2 * PageSize}
Devices == {0}

Keys == ReqIds \X Offsets \X LayerIdxs
Bases == {10, 20, 30, 40}
Addrs == {b + o : b \in Bases, o \in Offsets}

MapArgs ==
  [reqId : ReqIds, layer_idx : LayerIdxs, req_offset : Offsets,
   kcache_ptr : {bp[1] : bp \in BasePairs}, vcache_ptr : {bp[2] : bp \in BasePairs},
   k_page : {pp[1] : pp \in PagePairs}, v_page : {pp[2] : pp \in PagePairs}]

CallArgs ==
  {a \in MapArgs : <<a.kcache_ptr, a.vcache_ptr>> \in BasePairs
                   /\ <<a.k_page, a.v_page>> \in PagePairs}

NoArgs ==
  [reqId |-> 0, layer_idx |-> 0, req_offset |-> 0, kcache_ptr |-> 0,
   vcache_ptr |-> 0, k_page |-> 0, v_page |-> 0]

(* ------------------------------- state -------------------------------- *)

VARIABLES
  halted,                \* exit(1) was reached
  ctx,                   \* the CUcontext global
  prop,                  \* CUmemAllocationProp global
  accessDesc,            \* CUmemAccessDesc global
  cuda_pages,            \* the pool: vector of page handles
  cuda_pagemap,          \* (reqId, req_offset, layer_idx) -> (k_page, v_page)
  memory_mapping_mutex,  \* the thread holding the mutex, or NoThread
  pc,                    \* each worker's position in map_cuda_pages
  args,                  \* each worker's parameters while it is inside the call
  tdPc,                  \* the control thread's position in the cleanup
  tdTodo,                \* pagemap entries the unmap loop has not visited
  tdIdx,                 \* loop index of the free / release loops
  bound,                 \* backend: virtual address -> handle mapped there (0: none)
  access,                \* backend: addresses with read-write access granted
  initLog,               \* history: inputs and outcome of the init call
  reserveLog,            \* history: target, sizes, result of the last reserve, and the
                         \*   cleanup runs begun before it (SpecPool)
  backendCalls,          \* history: per key, the driver calls map issued for it
  ncalls,                \* history: map calls started
  doneLog,               \* history: ((reqId, layer_idx, req_offset), pages) of returned calls
  overlap,               \* history: a call began while another held the mutex
  trace,                 \* history: driver calls of the current cleanup run
  released,              \* history: per handle, cuMemRelease attempts so far
  tdSnap,                \* history: pagemap and pool when the cleanup began
  tdRuns                 \* history: cleanup runs started

vars ==
  <<halted, ctx, prop, accessDesc, cuda_pages, cuda_pagemap,
    memory_mapping_mutex, pc, args, tdPc, tdTodo, tdIdx, bound, access,
    initLog, reserveLog, backendCalls, ncalls, doneLog, overlap, trace,
    released, tdSnap, tdRuns>>

progVars == <<ctx, prop, accessDesc, cuda_pages, cuda_pagemap>>
mapVars == <<memory_mapping_mutex, pc, args, ncalls, doneLog, overlap>>
tdVars == <<tdPc, tdTodo, tdIdx, trace, released, tdSnap, tdRuns>>
backendVars == <<bound, access, backendCalls>>
logVars == <<initLog, reserveLog>>

EmptyMap == [k \in {} |-> <<0, 0>>]

ZeroProp == [type |-> "INVALID", locType |-> "INVALID", id |-> 0]
ZeroAccessDesc == [locType |-> "INVALID", flags |-> "PROT_NONE", id |-> 0]

NoInit ==
  [called |-> FALSE, initOk |-> FALSE, ctxRes |-> "NULL", granOk |-> FALSE,
   gran |-> 0, page_size |-> 0, ret |-> 0, returned |-> FALSE]
NoReserve ==
  [called |-> FALSE, returned |-> FALSE, target |-> 0, before |-> 0, created |-> 0,
   ret |-> 0, runs |-> 0]

Init ==
  /\ halted = FALSE
  /\ ctx = "NULL"
  /\ prop = ZeroProp
  /\ accessDesc = ZeroAccessDesc
  /\ cuda_pages = <<>>
  /\ cuda_pagemap = EmptyMap
  /\ memory_mapping_mutex = NoThread
  /\ pc = [t \in Threads |-> "idle"]
  /\ args = [t \in Threads |-> NoArgs]
  /\ tdPc = "idle"
  /\ tdTodo = {}
  /\ tdIdx = 0
  /\ bound = [a \in Addrs |-> 0]
  /\ access = {}
  /\ initLog = NoInit
  /\ reserveLog = NoReserve
  /\ backendCalls = [k \in Keys |-> <<>>]
  /\ ncalls = 0
  /\ doneLog = {}
  /\ overlap = FALSE
  /\ trace = <<>>
  /\ released = <<>>
  /\ tdSnap = [pagemap |-> EmptyMap, pages |-> <<>>]
  /\ tdRuns = 0

\* the control thread is between calls
ControlIdle == tdPc = "idle"

(* ----------------------- do_cuda_default_init ------------------------- *)

\* mutant: the granularity comparison is missing
InitPassesNoGranularity(ctxRes, gran, page_size) == ctxRes = "CTX"

\* the two explicit checks of the initializer: a context, and the granularity
InitPasses(ctxRes, gran, page_size) ==
  /\ ctxRes = "CTX"
  /\ gran = page_size

\* initOk, ctxRes, granOk, gran: what cuInit, cuCtxGetCurrent and
\* cuMemGetAllocationGranularity answer; CHECK_CUDA exits on a driver error
do_cuda_default_init(device, page_size, initOk, ctxRes, granOk, gran) ==
  /\ ~halted
  /\ ControlIdle
  /\ ~initLog.called
  /\ LET gotCtx == initOk /\ ctxRes # "ERR"
         built == gotCtx /\ ctxRes # "NULL"
         ok == initOk /\ granOk /\ InitPasses(ctxRes, gran, page_size)
     IN /\ ctx' = IF gotCtx THEN ctxRes ELSE ctx
        /\ prop' = IF built
                   THEN [type |-> "PINNED", locType |-> "DEVICE", id |-> device]
                   ELSE prop
        /\ accessDesc' = IF built
                         THEN [locType |-> "DEVICE", flags |-> "PROT_READWRITE",
                               id |-> device]
                         ELSE accessDesc
        /\ halted' = ~ok
        /\ initLog' = [called |-> TRUE, initOk |-> initOk, ctxRes |-> ctxRes,
                       granOk |-> granOk, gran |-> gran, page_size |-> page_size,
                       ret |-> IF ok THEN gran ELSE 0, returned |-> ok]
  /\ UNCHANGED <<cuda_pages, cuda_pagemap, reserveLog>>
  /\ UNCHANGED <<mapVars, tdVars, backendVars>>

DoInit ==
  \E device \in Devices, initOk \in BOOLEAN, ctxRes \in {"ERR", "NULL", "CTX"},
     granOk \in BOOLEAN, gran \in Granularities :
    do_cuda_default_init(device, PageSize, initOk, ctxRes, granOk, gran)

(* ------------------------- reserve_cuda_pages ------------------------- *)

\* mutant: the loop runs once more than the target asks
NeedsPageOffByOne(size, num_phys_blocks) == size <= num_phys_blocks

\* the loop condition: cuda_pages.size() < num_phys_blocks
NeedsPage(size, num_phys_blocks) == size < num_phys_blocks

\* pages the loop creates when no cuMemCreate fails
RECURSIVE GrowTo(_, _)
GrowTo(pages, num_phys_blocks) ==
  IF NeedsPage(Len(pages), num_phys_blocks)
  THEN GrowTo(Append(pages, Len(pages) + 1), num_phys_blocks)
  ELSE pages

\* num_phys_blocks: the sizing policy's answer.  failAt: the iteration whose
\* cuMemCreate fails (0: none); CHECK_CUDA exits there with the pages created
\* so far kept in the pool.
reserve_cuda_pages(num_phys_blocks, failAt, logged) ==
  /\ ~halted
  /\ ControlIdle
  /\ initLog.returned
  /\ LET full == GrowTo(cuda_pages, num_phys_blocks)
         want == Len(full) - Len(cuda_pages)
         fails == failAt > 0 /\ failAt <= want
         got == IF fails THEN SubSeq(full, 1, Len(cuda_pages) + failAt - 1) ELSE full
     IN /\ failAt <= want
        /\ cuda_pages' = got
        /\ released' = released \o [i \in 1..(Len(got) - Len(released)) |-> 0]
        /\ halted' = fails
        /\ reserveLog' = IF logged
                          THEN [called |-> TRUE, returned |-> ~fails,
                                target |-> num_phys_blocks,
                                before |-> Len(cuda_pages),
                                created |-> Len(got) - Len(cuda_pages),
                                ret |-> IF fails THEN 0 ELSE Len(got),
                                runs |-> tdRuns]
                          ELSE reserveLog
  /\ UNCHANGED <<ctx, prop, accessDesc, cuda_pagemap, initLog>>
  /\ UNCHANGED <<mapVars, backendVars>>
  /\ UNCHANGED <<tdPc, tdTodo, tdIdx, trace, tdSnap, tdRuns>>

\* the pool is grown on the control thread before the workers start
Reserve ==
  /\ ncalls = 0
  /\ tdRuns = 0
  /\ \E num_phys_blocks \in 0..MaxTarget, failAt \in 0..MaxTarget :
       reserve_cuda_pages(num_phys_blocks, failAt, FALSE)

\* the same call, also after a cleanup, with its target and result kept in
\* reserveLog
ReserveLogged ==
  \E num_phys_blocks \in 0..MaxTarget, failAt \in 0..MaxTarget :
    reserve_cuda_pages(num_phys_blocks, failAt, TRUE)

(* --------------------------- map_cuda_pages --------------------------- *)

\* mutant: the key leaves the layer out
mapping_key_no_layer(a) == <<a.reqId, a.req_offset, 1>>

\* std::make_tuple(reqId, req_offset, layer_idx)
mapping_key(a) == <<a.reqId, a.req_offset, a.layer_idx>>

\* mutant: no mutual exclusion
CanLockAlways(t) == TRUE

\* std::lock_guard<std::mutex> lock(memory_mapping_mutex) can be taken
CanLock(t) == memory_mapping_mutex = NoThread

Aligned(a, page_size) == a.req_offset % page_size = 0
HandlesValid(a) == ~(a.k_page = 0 \/ a.v_page = 0)
PointersValid(a) == ~(a.kcache_ptr = 0 \/ a.vcache_ptr = 0)
\* mutant: the descriptor is not validated
AccessDescUnchecked == TRUE

AccessDescReady ==
  ~(accessDesc.locType # "DEVICE" \/ accessDesc.flags # "PROT_READWRITE")

\* mutant: the alignment validation is missing
PreconditionsNoAlignment(a) ==
  /\ HandlesValid(a)
  /\ PointersValid(a)
  /\ AccessDescReady

\* the four validations at the head of map_cuda_pages
PreconditionsOk(a) ==
  /\ Aligned(a, PageSize)
  /\ HandlesValid(a)
  /\ PointersValid(a)
  /\ AccessDescReady

\* mutant: the duplicate check never finds the key
AlreadyMappedNever(key) == FALSE

\* cuda_pagemap.find(mapping_key) != cuda_pagemap.end()
AlreadyMapped(key) == key \in DOMAIN cuda_pagemap

\* mutant: recording an entry replaces the table by that one entry
InsertDropsOthers(m, key, pair) == [k \in {key} |-> pair]

\* cuda_pagemap[key] = pair
Insert(m, key, pair) ==
  [k \in DOMAIN m \cup {key} |-> IF k = key THEN pair ELSE m[k]]

\* backend: cuMemMap refuses an address that already carries a mapping
MemMapOk(addr, fault) == ~fault /\ bound[addr] = 0

\* a worker enters map_cuda_pages and reaches the lock_guard.  Its parameters
\* are local to it; they become part of the state when it takes the lock.
Call(t) ==
  /\ ~halted
  /\ tdRuns = 0
  /\ pc[t] = "idle"
  /\ ncalls < MaxCalls
  /\ pc' = [pc EXCEPT ![t] = "lock"]
  /\ ncalls' = ncalls + 1
  /\ overlap' = (overlap \/ memory_mapping_mutex # NoThread)
  /\ UNCHANGED <<memory_mapping_mutex, args, doneLog>>
  /\ UNCHANGED <<halted, progVars, tdVars, backendVars, logVars>>

Lock(t) ==
  /\ ~halted
  /\ pc[t] = "lock"
  /\ CanLock(t)
  /\ \E a \in CallArgs : args' = [args EXCEPT ![t] = a]
  /\ memory_mapping_mutex' = t
  /\ pc' = [pc EXCEPT ![t] = "chk"]
  /\ UNCHANGED <<ncalls, doneLog, overlap>>
  /\ UNCHANGED <<halted, progVars, tdVars, backendVars, logVars>>

\* mutant: a return path leaves the mutex locked
ReturnHoldingMutex(t) ==
  /\ memory_mapping_mutex' = memory_mapping_mutex
  /\ pc' = [pc EXCEPT ![t] = "idle"]
  /\ args' = [args EXCEPT ![t] = NoArgs]
  /\ doneLog' = doneLog \cup {<<<<args[t].reqId, args[t].layer_idx, args[t].req_offset>>,
                                 <<args[t].k_page, args[t].v_page>>>>}

\* return: the lock_guard's destructor releases the mutex
Return(t) ==
  /\ memory_mapping_mutex' = NoThread
  /\ pc' = [pc EXCEPT ![t] = "idle"]
  /\ args' = [args EXCEPT ![t] = NoArgs]
  /\ doneLog' = doneLog \cup {<<<<args[t].reqId, args[t].layer_idx, args[t].req_offset>>,
                                 <<args[t].k_page, args[t].v_page>>>>}

\* exit(1): the process stops where it is, the mutex still held
Exit(t) ==
  /\ halted' = TRUE
  /\ UNCHANGED <<memory_mapping_mutex, pc, args, doneLog>>

\* mutant: the duplicate check runs before the validations
CheckDuplicateFirst(t) ==
  /\ ~halted
  /\ pc[t] = "chk"
  /\ IF <<args[t].reqId, args[t].req_offset, args[t].layer_idx>> \in DOMAIN cuda_pagemap
     THEN Return(t) /\ UNCHANGED halted
     ELSE IF ~PreconditionsOk(args[t])
          THEN Exit(t)
          ELSE /\ pc' = [pc EXCEPT ![t] = "mapK"]
               /\ UNCHANGED <<halted, memory_mapping_mutex, args, doneLog>>
  /\ UNCHANGED <<ncalls, overlap>>
  /\ UNCHANGED <<progVars, tdVars, backendVars, logVars>>

\* the validations, then the duplicate check
Check(t) ==
  /\ ~halted
  /\ pc[t] = "chk"
  /\ IF ~PreconditionsOk(args[t])
     THEN Exit(t)
     ELSE IF AlreadyMapped(mapping_key(args[t]))
          THEN Return(t) /\ UNCHANGED halted
          ELSE /\ pc' = [pc EXCEPT ![t] = "mapK"]
               /\ UNCHANGED <<halted, memory_mapping_mutex, args, doneLog>>
  /\ UNCHANGED <<ncalls, overlap>>
  /\ UNCHANGED <<progVars, tdVars, backendVars, logVars>>

\* mutant: the result of cuMemMap is not checked
MemMapUnchecked(t, at, op, ptr, page, next, fault) ==
  /\ ~halted
  /\ pc[t] = at
  /\ LET a == args[t]
         addr == ptr + a.req_offset
         ok == ~fault /\ bound[addr] = 0
     IN /\ backendCalls' =
             [backendCalls EXCEPT ![<<a.reqId, a.req_offset, a.layer_idx>>] =
                Append(@, [op |-> op, addr |-> addr, page |-> page, ok |-> ok])]
        /\ bound' = IF ok THEN [bound EXCEPT ![addr] = page] ELSE bound
        /\ pc' = [pc EXCEPT ![t] = next]
        /\ UNCHANGED <<halted, memory_mapping_mutex, args, doneLog>>
  /\ UNCHANGED <<ncalls, overlap, access>>
  /\ UNCHANGED <<progVars, tdVars, logVars>>

\* cuMemMap(ptr + req_offset, page_size, 0, page, 0) for one side
MemMap(t, at, op, ptr, page, next, fault) ==
  /\ ~halted
  /\ pc[t] = at
  /\ LET a == args[t]
         addr == ptr + a.req_offset
         ok == MemMapOk(addr, fault)
     IN /\ backendCalls' =
             [backendCalls EXCEPT ![mapping_key(a)] =
                Append(@, [op |-> op, addr |-> addr, page |-> page, ok |-> ok])]
        /\ bound' = IF ok THEN [bound EXCEPT ![addr] = page] ELSE bound
        /\ IF ok
           THEN /\ pc' = [pc EXCEPT ![t] = next]
                /\ UNCHANGED <<halted, memory_mapping_mutex, args, doneLog>>
           ELSE Exit(t)
  /\ UNCHANGED <<ncalls, overlap, access>>
  /\ UNCHANGED <<progVars, tdVars, logVars>>

MapK(t) ==
  \E fault \in BOOLEAN :
    MemMap(t, "mapK", "mapK", args[t].kcache_ptr, args[t].k_page, "mapV", fault)

MapV(t) ==
  \E fault \in BOOLEAN :
    MemMap(t, "mapV", "mapV", args[t].vcache_ptr, args[t].v_page, "accK", fault)

\* mutant: cuMemSetAccess is called without CHECK_CUDA
SetAccessUnchecked(t, at, op, ptr, next, fault) ==
  /\ ~halted
  /\ pc[t] = at
  /\ LET a == args[t]
         addr == ptr + a.req_offset
         ok == ~fault
     IN /\ backendCalls' =
             [backendCalls EXCEPT ![<<a.reqId, a.req_offset, a.layer_idx>>] =
                Append(@, [op |-> op, addr |-> addr, page |-> 0, ok |-> ok])]
        /\ access' = IF ok THEN access \cup {addr} ELSE access
        /\ pc' = [pc EXCEPT ![t] = next]
        /\ UNCHANGED <<halted, memory_mapping_mutex, args, doneLog>>
  /\ UNCHANGED <<ncalls, overlap, bound>>
  /\ UNCHANGED <<progVars, tdVars, logVars>>

\* CHECK_CUDA(cuMemSetAccess(ptr + req_offset, page_size, &accessDesc, 1))
SetAccess(t, at, op, ptr, next, fault) ==
  /\ ~halted
  /\ pc[t] = at
  /\ LET a == args[t]
         addr == ptr + a.req_offset
         ok == ~fault
     IN /\ backendCalls' =
             [backendCalls EXCEPT ![mapping_key(a)] =
                Append(@, [op |-> op, addr |-> addr, page |-> 0, ok |-> ok])]
        /\ access' = IF ok THEN access \cup {addr} ELSE access
        /\ IF ok
           THEN /\ pc' = [pc EXCEPT ![t] = next]
                /\ UNCHANGED <<halted, memory_mapping_mutex, args, doneLog>>
           ELSE Exit(t)
  /\ UNCHANGED <<ncalls, overlap, bound>>
  /\ UNCHANGED <<progVars, tdVars, logVars>>

AccK(t) ==
  \E fault \in BOOLEAN : SetAccess(t, "accK", "accK", args[t].kcache_ptr, "accV", fault)

AccV(t) ==
  \E fault \in BOOLEAN : SetAccess(t, "accV", "accV", args[t].vcache_ptr, "rec", fault)

\* cuda_pagemap[key] = make_pair(k_page, v_page); return
Record(t) ==
  /\ ~halted
  /\ pc[t] = "rec"
  /\ cuda_pagemap' =
       Insert(cuda_pagemap, mapping_key(args[t]), <<args[t].k_page, args[t].v_page>>)
  /\ Return(t)
  /\ UNCHANGED <<ncalls, overlap>>
  /\ UNCHANGED <<halted, ctx, prop, accessDesc, cuda_pages>>
  /\ UNCHANGED <<tdVars, backendVars, logVars>>

(* ----------------------- do_cuda_kvcache_cleanup ---------------------- *)

Quiescent == \A t \in Threads : pc[t] = "idle"

Faults == Cardinality({i \in 1..Len(trace) : trace[i].fault})

TeardownBegin(runs) ==
  /\ ~halted
  /\ ControlIdle
  /\ Quiescent
  /\ tdRuns < runs
  /\ tdRuns' = tdRuns + 1
  /\ tdSnap' = [pagemap |-> cuda_pagemap, pages |-> cuda_pages]
  /\ trace' = <<>>
  /\ tdTodo' = DOMAIN cuda_pagemap
  /\ tdIdx' = 0
  /\ tdPc' = "unmap"
  /\ UNCHANGED released
  /\ UNCHANGED <<halted, progVars, mapVars, backendVars, logVars>>


\* mutant: a failed driver call ends the process, as CHECK_CUDA would
GoesOnOnlyIfOk(ok) == ok

\* what the cleanup does with a driver call's result: it logs a warning and
\* goes on, whether the call succeeded or not
GoesOn(ok) == TRUE

\* mutant: the handles are released before the ranges are freed
NextPhaseReleaseFirst(p) ==
  CASE p = "unmap" -> "release"
    [] p = "release" -> "free"
    [] p = "free" -> "idle"

\* the order of the three loops
NextPhase(p) ==
  CASE p = "unmap" -> "free"
    [] p = "free" -> "release"
    [] p = "release" -> "idle"

\* the layer's tensors exist: layer_idx < k_tensors.size()
LayerKnown(layer_idx) == layer_idx < Len(k_tensors)

\* backend: cuMemUnmap fails on an address that carries no mapping
MemUnmapOk(addr, fault) == ~fault /\ bound[addr] # 0

FaultCount(fs) == Cardinality({i \in DOMAIN fs : fs[i]})

\* faults injected into the calls of one step stay within the budget
WithinBudget(fs) == Faults + FaultCount(fs) <= MaxFaults

Call2(op1, at1, ok1, f1, op2, at2, ok2, f2) ==
  <<[op |-> op1, at |-> at1, ok |-> ok1, fault |-> f1],
    [op |-> op2, at |-> at2, ok |-> ok2, fault |-> f2]>>

\* one iteration of the unmap loop, for the entry with key `key`
UnmapEntry(key, fk, fv) ==
  /\ ~halted
  /\ tdPc = "unmap"
  /\ key \in tdTodo
  /\ WithinBudget(<<fk, fv>>)
  /\ LET req_offset == key[2]
         layer_idx == key[3]
         kcache_ptr == IF LayerKnown(layer_idx) THEN k_tensors[layer_idx + 1] ELSE 0
         vcache_ptr == IF LayerKnown(layer_idx) THEN v_tensors[layer_idx + 1] ELSE 0
         doIt == LayerKnown(layer_idx) /\ kcache_ptr # 0 /\ vcache_ptr # 0
         ka == kcache_ptr + req_offset
         va == vcache_ptr + req_offset
         okK == MemUnmapOk(ka, fk)
         okV == MemUnmapOk(va, fv)
     IN IF doIt
        THEN /\ trace' = trace \o Call2("unmap", ka, okK, fk, "unmap", va, okV, fv)
             /\ bound' = [x \in Addrs |->
                            IF (x = ka /\ okK) \/ (x = va /\ okV) THEN 0 ELSE bound[x]]
             /\ access' = access \ ({ka : z \in {1} \cap (IF okK THEN {1} ELSE {})}
                                    \cup {va : z \in {1} \cap (IF okV THEN {1} ELSE {})})
             /\ halted' = ~(GoesOn(okK) /\ GoesOn(okV))
        ELSE /\ ~fk /\ ~fv
             /\ UNCHANGED <<trace, bound, access, halted>>
  /\ tdTodo' = tdTodo \ {key}
  /\ UNCHANGED <<tdPc, tdIdx, released, tdSnap, tdRuns, backendCalls>>
  /\ UNCHANGED <<progVars, mapVars, logVars>>

\* mutant: the table is not cleared after the unmap loop
ClearPagemapMissing ==
  /\ ~halted
  /\ tdPc = "unmap"
  /\ tdTodo = {}
  /\ tdPc' = NextPhase("unmap")
  /\ tdIdx' = 0
  /\ UNCHANGED <<tdTodo, trace, released, tdSnap, tdRuns>>
  /\ UNCHANGED <<halted, progVars, mapVars, backendVars, logVars>>

\* the unmap loop is over: cuda_pagemap.clear()
ClearPagemap ==
  /\ ~halted
  /\ tdPc = "unmap"
  /\ tdTodo = {}
  /\ cuda_pagemap' = EmptyMap
  /\ tdPc' = NextPhase("unmap")
  /\ tdIdx' = 0
  /\ UNCHANGED <<tdTodo, trace, released, tdSnap, tdRuns>>
  /\ UNCHANGED <<halted, ctx, prop, accessDesc, cuda_pages>>
  /\ UNCHANGED <<mapVars, backendVars, logVars>>

\* one iteration of the loop over k_tensors: cuMemAddressFree of both ranges
FreeLayer(fk, fv) ==
  /\ ~halted
  /\ tdPc = "free"
  /\ tdIdx < Len(k_tensors)
  /\ WithinBudget(<<fk, fv>>)
  /\ LET k_ptr == k_tensors[tdIdx + 1]
         v_ptr == v_tensors[tdIdx + 1]
         kCall == IF k_ptr # 0
                  THEN <<[op |-> "free", at |-> k_ptr, ok |-> ~fk, fault |-> fk]>>
                  ELSE <<>>
         vCall == IF v_ptr # 0
                  THEN <<[op |-> "free", at |-> v_ptr, ok |-> ~fv, fault |-> fv]>>
                  ELSE <<>>
     IN /\ k_ptr = 0 => ~fk
        /\ v_ptr = 0 => ~fv
        /\ trace' = trace \o kCall \o vCall
        /\ halted' = ~(GoesOn(~fk) /\ GoesOn(~fv))
  /\ tdIdx' = tdIdx + 1
  /\ UNCHANGED <<tdPc, tdTodo, released, tdSnap, tdRuns>>
  /\ UNCHANGED <<progVars, mapVars, backendVars, logVars>>

FreeDone ==
  /\ ~halted
  /\ tdPc = "free"
  /\ tdIdx = Len(k_tensors)
  /\ tdPc' = NextPhase("free")
  /\ tdIdx' = 0
  /\ UNCHANGED <<tdTodo, trace, released, tdSnap, tdRuns>>
  /\ UNCHANGED <<halted, progVars, mapVars, backendVars, logVars>>

\* one iteration of the loop over cuda_pages: cuMemRelease(cuda_pages[i])
ReleasePage(f) ==
  /\ ~halted
  /\ tdPc = "release"
  /\ tdIdx < Len(cuda_pages)
  /\ WithinBudget(<<f>>)
  /\ trace' = Append(trace, [op |-> "release", at |-> cuda_pages[tdIdx + 1],
                             ok |-> ~f, fault |-> f])
  /\ released' = [released EXCEPT ![cuda_pages[tdIdx + 1]] = @ + 1]
  /\ halted' = ~GoesOn(~f)
  /\ tdIdx' = tdIdx + 1
  /\ UNCHANGED <<tdPc, tdTodo, tdSnap, tdRuns>>
  /\ UNCHANGED <<progVars, mapVars, backendVars, logVars>>

\* mutant: the release loop stops one handle short
ReleaseDoneEarly ==
  /\ ~halted
  /\ tdPc = "release"
  /\ tdIdx >= Len(cuda_pages) - 1
  /\ tdPc' = NextPhase("release")
  /\ tdIdx' = 0
  /\ UNCHANGED <<tdTodo, trace, released, tdSnap, tdRuns>>
  /\ UNCHANGED <<halted, progVars, mapVars, backendVars, logVars>>

\* mutant: the cleanup empties the pool once the handles are released
ReleaseDoneClearsPool ==
  /\ ~halted
  /\ tdPc = "release"
  /\ tdIdx = Len(cuda_pages)
  /\ cuda_pages' = <<>>
  /\ tdPc' = NextPhase("release")
  /\ tdIdx' = 0
  /\ UNCHANGED <<tdTodo, trace, released, tdSnap, tdRuns>>
  /\ UNCHANGED <<halted, ctx, prop, accessDesc, cuda_pagemap>>
  /\ UNCHANGED <<mapVars, backendVars, logVars>>

\* the release loop is over: the cleanup returns
ReleaseDone ==
  /\ ~halted
  /\ tdPc = "release"
  /\ tdIdx = Len(cuda_pages)
  /\ tdPc' = NextPhase("release")
  /\ tdIdx' = 0
  /\ UNCHANGED <<tdTodo, trace, released, tdSnap, tdRuns>>
  /\ UNCHANGED <<halted, progVars, mapVars, backendVars, logVars>>

(* --------------------------- specification ---------------------------- *)

MapStep(t) ==
  \/ Call(t)
  \/ Lock(t)
  \/ Check(t)
  \/ MapK(t)
  \/ MapV(t)
  \/ AccK(t)
  \/ AccV(t)
  \/ Record(t)

Unmap == \E key \in tdTodo, fk \in BOOLEAN, fv \in BOOLEAN : UnmapEntry(key, fk, fv)
Free == \E fk \in BOOLEAN, fv \in BOOLEAN : FreeLayer(fk, fv)
Release == \E f \in BOOLEAN : ReleasePage(f)

\* the cleanup runs once, at the end of the session
TeardownStart == TeardownBegin(1)

\* the control thread calls the cleanup again
TeardownAgain == TeardownBegin(MaxTeardowns)

Next ==
  \/ DoInit
  \/ Reserve
  \/ \E t \in Threads : MapStep(t)
  \/ TeardownStart
  \/ Unmap
  \/ ClearPagemap
  \/ Free
  \/ FreeDone
  \/ Release
  \/ ReleaseDone

Spec == Init /\ [][Next]_vars

\* the steps of a worker that is inside map_cuda_pages
InCall(t) ==
  \/ Check(t)
  \/ MapK(t)
  \/ MapV(t)
  \/ AccK(t)
  \/ AccV(t)
  \/ Record(t)

\* fair scheduling of the workers: a thread inside the critical section keeps
\* running, and a thread waiting at the lock_guard gets the mutex if it is
\* free again and again
Fairness == \A t \in Threads : WF_vars(InCall(t)) /\ SF_vars(Lock(t))

\* steady state: init, then the workers' calls.  The control thread's reserve
\* and cleanup run only while no call is in flight, so they take no step
\* between a call's begin and its end.
NextMap ==
  \/ DoInit
  \/ \E t \in Threads : MapStep(t)

SpecFair == Init /\ [][NextMap]_vars /\ Fairness

\* the control thread alone: init, pool growth and cleanup, no mapping calls
NextPool ==
  \/ DoInit
  \/ ReserveLogged
  \/ TeardownAgain
  \/ ClearPagemap
  \/ Free
  \/ FreeDone
  \/ Release
  \/ ReleaseDone

SpecPool == Init /\ [][NextPool]_vars

(* ------------------------------ claims -------------------------------- *)

\* the table key of a call's arguments, (reqId, req_offset, layer_idx)
KeyOfArgs(a) == <<a.reqId, a.req_offset, a.layer_idx>>

\* the same key as doneLog writes it, (reqId, layer_idx, req_offset)
LogKey(key) == <<key[1], key[3], key[2]>>

\* the driver calls of kind op that map issued for a key
CallsOf(key, op) ==
  {i \in 1..Len(backendCalls[key]) : backendCalls[key][i].op = op}

\* the arguments pass the three validations that read only the arguments
ArgsPass(a) ==
  /\ a.req_offset % PageSize = 0
  /\ a.k_page # 0 /\ a.v_page # 0
  /\ a.kcache_ptr # 0 /\ a.vcache_ptr # 0

\* a step leaves the table and the backend as they were
MapEffectFree ==
  /\ cuda_pagemap' = cuda_pagemap
  /\ bound' = bound
  /\ access' = access
  /\ backendCalls' = backendCalls

\* each key has had at most one bind of its key page and one of its value
\* page, and exactly one of each once it is in the table
BoundOncePerKey ==
  \A key \in Keys :
    /\ Cardinality(CallsOf(key, "mapK")) <= 1
    /\ Cardinality(CallsOf(key, "mapV")) <= 1
    /\ key \in DOMAIN cuda_pagemap =>
         /\ Cardinality(CallsOf(key, "mapK")) = 1
         /\ Cardinality(CallsOf(key, "mapV")) = 1

\* C1 as the spec states it: a call whose key already has an entry returns,
\* having issued no bind or permission grant and left the table unchanged, for
\* any supplied page pair; each key's pages are bound exactly once.
C1_RepeatAlwaysReturns ==
  /\ [][\A t \in Threads :
          (pc[t] = "chk" /\ KeyOfArgs(args[t]) \in DOMAIN cuda_pagemap) =>
            /\ MapEffectFree
            /\ ~halted'
            /\ pc'[t] \in {"chk", "idle"}]_vars
  /\ []BoundOncePerKey

\* C1, amended: a call whose key already has an entry issues no bind and no
\* permission grant and leaves the table unchanged, for any supplied page pair;
\* it returns, releasing the mutex, when its arguments pass the validations and
\* halts the process when they do not; each key's pages are bound exactly once.
C1_RepeatIsNoOp ==
  /\ [][\A t \in Threads :
          (pc[t] = "chk" /\ KeyOfArgs(args[t]) \in DOMAIN cuda_pagemap) =>
            /\ MapEffectFree
            /\ pc'[t] \in {"chk", "idle"}
            /\ ArgsPass(args[t]) => ~halted'
            /\ (ArgsPass(args[t]) /\ pc'[t] = "idle") => memory_mapping_mutex' = NoThread
            /\ ~ArgsPass(args[t]) => pc'[t] = "chk"]_vars
  /\ []BoundOncePerKey

\* C1 witness: a second call for a recorded key returned with another page
\* pair, and the key's pages were bound once
C1_Witness ==
  /\ ~halted
  /\ \E key \in DOMAIN cuda_pagemap :
       /\ \E d \in doneLog : d[1] = LogKey(key) /\ d[2] # cuda_pagemap[key]
       /\ \E d \in doneLog : d[1] = LogKey(key) /\ d[2] = cuda_pagemap[key]
       /\ Cardinality(CallsOf(key, "mapK")) = 1

\* every started call has returned, each with a (reqId, layer_idx, req_offset)
\* of its own
AllReturnedDistinct ==
  /\ ~halted
  /\ \A t \in Threads : pc[t] = "idle"
  /\ ncalls >= 2
  /\ Cardinality({d[1] : d \in doneLog}) = ncalls

\* C2: once N concurrent calls with pairwise-distinct keys have all returned,
\* the table holds exactly those N keys, each with the pair its call supplied,
\* and each key has had one key-page bind and one value-page bind.
C2_DistinctKeysAllRecorded ==
  (AllReturnedDistinct /\ tdRuns = 0) =>
    /\ DOMAIN cuda_pagemap = {LogKey(d[1]) : d \in doneLog}
    /\ Cardinality(DOMAIN cuda_pagemap) = ncalls
    /\ \A d \in doneLog :
         /\ cuda_pagemap[LogKey(d[1])] = d[2]
         /\ Cardinality(CallsOf(LogKey(d[1]), "mapK")) = 1
         /\ Cardinality(CallsOf(LogKey(d[1]), "mapV")) = 1

\* C2 witness: two overlapping calls with one reqId and different layers have
\* returned and the table holds both
C2_Witness ==
  /\ AllReturnedDistinct
  /\ overlap
  /\ Cardinality({d[1][1] : d \in doneLog}) = 1
  /\ Cardinality({<<d[1][2], d[1][3]>> : d \in doneLog}) = ncalls
  /\ Cardinality(DOMAIN cuda_pagemap) = ncalls

\* the one successful bind of a key on each side put the recorded page at the
\* address that is still bound to it
EntryMatchesBinding(key) ==
  LET calls == backendCalls[key]
      ks == CallsOf(key, "mapK")
      vs == CallsOf(key, "mapV")
  IN /\ Cardinality(ks) = 1
     /\ Cardinality(vs) = 1
     /\ \A i \in ks :
          /\ calls[i].ok
          /\ calls[i].page = cuda_pagemap[key][1]
          /\ tdRuns = 0 => bound[calls[i].addr] = cuda_pagemap[key][1]
     /\ \A i \in vs :
          /\ calls[i].ok
          /\ calls[i].page = cuda_pagemap[key][2]
          /\ tdRuns = 0 => bound[calls[i].addr] = cuda_pagemap[key][2]

\* C3: under every interleaving of calls with one key and different pairs, one
\* call binds, the key has one entry, and the recorded pair is the pair bound
\* at the call's addresses; no slot carries one call's pages while the table
\* records another's.
C3_OneBinderPerKey ==
  \A key \in Keys :
    IF key \in DOMAIN cuda_pagemap
    THEN EntryMatchesBinding(key)
    ELSE /\ Cardinality(CallsOf(key, "mapK")) <= 1
         /\ Cardinality(CallsOf(key, "mapV")) <= 1

\* C3 witness: two overlapping calls with one key and different pairs have both
\* returned
C3_Witness ==
  /\ ~halted
  /\ overlap
  /\ ncalls = 2
  /\ \A t \in Threads : pc[t] = "idle"
  /\ \E d1 \in doneLog, d2 \in doneLog : d1[1] = d2[1] /\ d1[2] # d2[2]
  /\ Cardinality(DOMAIN cuda_pagemap) = 1

\* C4: at most one thread is between taking the mutex and returning, it is the
\* mutex holder, and while it is there no step of another thread changes the
\* table or the backend.
C4_MutualExclusion ==
  /\ [](/\ Cardinality({t \in Threads :
                          pc[t] \in {"chk", "mapK", "mapV", "accK", "accV", "rec"}}) <= 1
        /\ \A t \in Threads :
             pc[t] \in {"chk", "mapK", "mapV", "accK", "accV", "rec"} =>
               memory_mapping_mutex = t)
  /\ [][\A t \in Threads :
          (pc[t] \in {"chk", "mapK", "mapV", "accK", "accV", "rec"}
           /\ pc'[t] = pc[t] /\ ~halted') => MapEffectFree]_vars

\* C4 witness: one thread is about to record while the other waits for the mutex
C4_Witness ==
  \E t \in Threads, u \in Threads :
    /\ ~halted
    /\ pc[t] = "rec"
    /\ pc[u] = "lock"
    /\ memory_mapping_mutex = t

\* C5: a call that violates a precondition issues no backend call, adds no
\* entry and does not return: its own step halts the process; every entry has
\* an aligned offset and two non-null handles.
C5_PreconditionsFatal ==
  /\ [][\A t \in Threads :
          (pc[t] = "chk"
           /\ (~ArgsPass(args[t])
               \/ accessDesc.locType # "DEVICE"
               \/ accessDesc.flags # "PROT_READWRITE")) =>
            /\ MapEffectFree
            /\ pc'[t] = "chk"
            /\ UNCHANGED doneLog
            /\ (pc' = pc /\ initLog' = initLog) => halted']_vars
  /\ [](\A key \in DOMAIN cuda_pagemap :
          /\ key[2] % PageSize = 0
          /\ cuda_pagemap[key][1] # 0
          /\ cuda_pagemap[key][2] # 0)

\* C5 witness: with an entry in the table, a call with a misaligned offset has
\* halted the process at the validations
C5_Witness ==
  /\ halted
  /\ cuda_pagemap # EmptyMap
  /\ \E t \in Threads :
       /\ pc[t] = "chk"
       /\ args[t].req_offset % PageSize # 0
       /\ args[t].k_page # 0 /\ args[t].v_page # 0
       /\ args[t].kcache_ptr # 0 /\ args[t].vcache_ptr # 0

\* C6: until init has returned, no driver call has been issued for any key, no
\* address is bound, the table is empty and no map call has got past the
\* validations or returned: a call that reaches them halts the process.
C6_NoMapBeforeInit ==
  ~initLog.returned =>
    /\ \A key \in Keys : backendCalls[key] = <<>>
    /\ \A a \in Addrs : bound[a] = 0
    /\ access = {}
    /\ cuda_pagemap = EmptyMap
    /\ doneLog = {}
    /\ \A t \in Threads : pc[t] \in {"idle", "lock", "chk"}

\* C6 witness: with init never called, a call with valid arguments has halted
\* the process at the validations
C6_Witness ==
  /\ halted
  /\ ~initLog.called
  /\ accessDesc = ZeroAccessDesc
  /\ \E t \in Threads : pc[t] = "chk" /\ ArgsPass(args[t])

\* C7: init returns if and only if the driver gave a context and reported a
\* granularity equal to page_size, and then returns page_size; otherwise the
\* process has halted, and a halted process takes no further step.
C7_InitContract ==
  /\ [](initLog.called =>
          /\ initLog.returned <=>
               (/\ initLog.initOk /\ initLog.ctxRes = "CTX"
                /\ initLog.granOk /\ initLog.gran = initLog.page_size)
          /\ initLog.returned => (initLog.ret = initLog.page_size /\ ctx = "CTX")
          /\ ~initLog.returned => halted)
  /\ [][halted => UNCHANGED vars]_vars

\* C7 witness: init has returned page_size and a later operation has run
C7_Witness ==
  /\ initLog.returned
  /\ initLog.ret = PageSize
  /\ Len(cuda_pages) > 0
  /\ cuda_pagemap # EmptyMap

\* C8: the pool never shrinks and keeps its handles; a reserve that returns
\* gives max(previous size, target), having created target - previous size
\* handles when the target is larger and none otherwise.
C8_ReserveMonotone ==
  /\ [](reserveLog.returned =>
          /\ reserveLog.ret = IF reserveLog.target > reserveLog.before
                              THEN reserveLog.target ELSE reserveLog.before
          /\ reserveLog.created = IF reserveLog.target > reserveLog.before
                                  THEN reserveLog.target - reserveLog.before ELSE 0
          /\ Len(cuda_pages) = reserveLog.ret)
  /\ [][/\ Len(cuda_pages') >= Len(cuda_pages)
        /\ SubSeq(cuda_pages', 1, Len(cuda_pages)) = cuda_pages]_vars

\* C8 witness: a reserve whose target was below the pool size returned the
\* pool size and created nothing
C8_Witness ==
  /\ reserveLog.returned
  /\ reserveLog.before > 0
  /\ reserveLog.target < reserveLog.before
  /\ reserveLog.created = 0
  /\ reserveLog.ret = reserveLog.before

PhaseRank(op) ==
  CASE op = "unmap" -> 1
    [] op = "free" -> 2
    [] op = "release" -> 3

\* C9: in a cleanup run every unmap precedes every range free and every range
\* free precedes every handle release.
C9_PhaseOrder ==
  \A i \in 1..Len(trace), j \in 1..Len(trace) :
    i < j => PhaseRank(trace[i].op) <= PhaseRank(trace[j].op)

\* C9 witness: a finished cleanup made calls of all three phases
C9_Witness ==
  /\ tdRuns > 0
  /\ tdPc = "idle"
  /\ \E i \in 1..Len(trace) : trace[i].op = "unmap"
  /\ \E i \in 1..Len(trace) : trace[i].op = "free"
  /\ \E i \in 1..Len(trace) : trace[i].op = "release"

\* the unmap loop, the free loop, the release loop is over
UnmapOver == tdPc \in {"free", "release"} \/ (tdPc = "idle" /\ tdRuns > 0)
FreeOver == tdPc = "release" \/ (tdPc = "idle" /\ tdRuns > 0)
ReleaseOver == tdPc = "idle" /\ tdRuns > 0

\* the entries of the snapshot whose layer the cleanup can look up
Visitable == {key \in DOMAIN tdSnap.pagemap : key[3] < Len(k_tensors)}

Attempted(op, at) == \E i \in 1..Len(trace) : trace[i].op = op /\ trace[i].at = at

CleanupStep ==
  Unmap \/ ClearPagemap \/ Free \/ FreeDone \/ Release \/ ReleaseDone

\* C10: whatever driver calls fail, the cleanup never halts the process and can
\* always take its next step; the value-side unmap follows every key-side
\* unmap; once a phase is over each of its items has been attempted.
C10_BestEffort ==
  /\ tdPc # "idle" => (~halted /\ ENABLED CleanupStep)
  /\ tdRuns > 0 =>
       /\ \A i \in 1..Len(trace) :
            (trace[i].op = "unmap" /\ \E l \in 1..Len(k_tensors) :
                                         \E o \in Offsets : trace[i].at = k_tensors[l] + o)
              => (i < Len(trace) /\ trace[i + 1].op = "unmap")
       /\ UnmapOver =>
            \A key \in Visitable :
              /\ Attempted("unmap", k_tensors[key[3] + 1] + key[2])
              /\ Attempted("unmap", v_tensors[key[3] + 1] + key[2])
       /\ FreeOver =>
            \A l \in 1..Len(k_tensors) :
              /\ Attempted("free", k_tensors[l])
              /\ Attempted("free", v_tensors[l])
       /\ ReleaseOver =>
            \A i \in 1..Len(tdSnap.pages) : Attempted("release", tdSnap.pages[i])

\* C10 witness: a cleanup whose key-side unmap was made to fail has finished,
\* with the value-side unmap, the frees and the releases attempted
C10_Witness ==
  /\ ~halted
  /\ tdRuns > 0
  /\ tdPc = "idle"
  /\ \E i \in 1..Len(trace) :
       /\ trace[i].op = "unmap" /\ trace[i].fault
       /\ i < Len(trace) /\ trace[i + 1].op = "unmap" /\ trace[i + 1].ok
  /\ \E i \in 1..Len(trace) : trace[i].op = "free"
  /\ \E i \in 1..Len(trace) : trace[i].op = "release"

\* the unmap calls of the current cleanup run
UnmapCalls == {i \in 1..Len(trace) : trace[i].op = "unmap"}

\* the addresses at offset off of the layers' key ranges, and of their value ranges
KRangeAddrs(off) == {k_tensors[l] + off : l \in 1..Len(k_tensors)}
VRangeAddrs(off) == {v_tensors[l] + off : l \in 1..Len(v_tensors)}

\* C11: once the unmap loop is over, every entry the table held when the
\* cleanup began, whatever its layer_idx and offset, has had an unmap of a key
\* sub-range and an unmap of a value sub-range at its offset: two unmaps per
\* entry, none skipped.
C11_NoEntrySkipped ==
  UnmapOver =>
    /\ Cardinality(UnmapCalls) = 2 * Cardinality(DOMAIN tdSnap.pagemap)
    /\ \A key \in DOMAIN tdSnap.pagemap :
         /\ \E i \in UnmapCalls : trace[i].at \in KRangeAddrs(key[2])
         /\ \E i \in UnmapCalls : trace[i].at \in VRangeAddrs(key[2])

\* C12: while the unmap loop has entries left the table is as it was when the
\* cleanup began; the table changes during a cleanup only by being emptied
\* once the loop has visited every entry; from then on, and when the cleanup
\* has returned, the table is empty, whichever unmaps failed.
C12_ClearAfterSweep ==
  /\ [](tdPc = "unmap" => cuda_pagemap = tdSnap.pagemap)
  /\ [](UnmapOver => cuda_pagemap = EmptyMap)
  /\ [][(tdPc # "idle" /\ cuda_pagemap' # cuda_pagemap) =>
          (tdPc = "unmap" /\ tdTodo = {} /\ tdPc' = "free"
           /\ cuda_pagemap' = EmptyMap)]_vars

\* C12 witness: a cleanup of a table with an entry, one of whose unmaps
\* failed, has returned and the table is empty
C12_Witness ==
  /\ tdRuns > 0
  /\ tdPc = "idle"
  /\ tdSnap.pagemap # EmptyMap
  /\ \E i \in UnmapCalls : ~trace[i].ok
  /\ cuda_pagemap = EmptyMap

\* a step of the cleanup's clear: the unmap loop is over and the table is emptied
ClearStep ==
  /\ tdPc = "unmap"
  /\ tdTodo = {}
  /\ tdPc' = "free"
  /\ cuda_pagemap' = EmptyMap

\* C13: an entry, once in the table, keeps its page pair and stays there in
\* every step except the cleanup's clear; a step that adds an entry is the
\* record of a map call and adds only the key of that call.
C13_EntriesImmutable ==
  /\ [][ClearStep \/ \A key \in DOMAIN cuda_pagemap :
                        /\ key \in DOMAIN cuda_pagemap'
                        /\ cuda_pagemap'[key] = cuda_pagemap[key]]_vars
  /\ [][\A key \in DOMAIN cuda_pagemap' \ DOMAIN cuda_pagemap :
          \E t \in Threads :
            /\ pc[t] = "rec"
            /\ key = KeyOfArgs(args[t])
            /\ DOMAIN cuda_pagemap' = DOMAIN cuda_pagemap \cup {key}]_vars

\* C13 witness: after init and a reserve, two calls with different keys have
\* recorded their entries, and each entry holds the pair that was bound for it
C13_Witness ==
  /\ ~halted
  /\ Cardinality(DOMAIN cuda_pagemap) = 2
  /\ \A key \in DOMAIN cuda_pagemap :
       /\ Cardinality(CallsOf(key, "mapK")) = 1
       /\ \A i \in CallsOf(key, "mapK") :
            backendCalls[key][i].page = cuda_pagemap[key][1]
  /\ Len(cuda_pages) > 0

\* release attempts a handle has had at this point of a session's one cleanup
ReleasesDue(i) ==
  IF ReleaseOver \/ (tdPc = "release" /\ i <= tdIdx) THEN 1 ELSE 0

\* C14: every handle reserve created is in the pool, at the place it was
\* created; no step outside the cleanup's release loop counts a release; the
\* loop attempts each handle once, so that when the session's cleanup has
\* returned every created handle has had exactly one release attempt.
C14_ReleasedOncePerSession ==
  /\ [](/\ Len(released) = Len(cuda_pages)
        /\ \A i \in 1..Len(cuda_pages) :
             /\ cuda_pages[i] = i
             /\ released[i] = ReleasesDue(i))
  /\ [][/\ Len(cuda_pages') >= Len(cuda_pages)
        /\ \A i \in 1..Len(cuda_pages) :
             /\ cuda_pages'[i] = cuda_pages[i]
             /\ released'[i] # released[i] =>
                  (tdPc = "release" /\ i = tdIdx + 1 /\ released'[i] = released[i] + 1)]_vars

\* C14 witness: a session of init, reserve, a recorded map call and a cleanup
\* with a failed release is over, and each of the two handles was attempted once
C14_Witness ==
  /\ ~halted
  /\ ReleaseOver
  /\ tdSnap.pagemap # EmptyMap
  /\ Len(cuda_pages) = 2
  /\ released = <<1, 1>>
  /\ \E i \in 1..Len(trace) : trace[i].op = "release" /\ ~trace[i].ok

\* the successful driver calls of kind op that map issued for a key
OkCallsOf(key, op) == {i \in CallsOf(key, op) : backendCalls[key][i].ok}

\* the entry of a key is backed: its key page was bound at one address and is
\* still there, its value page likewise, and both addresses have access
EntryBacked(key) ==
  /\ \E i \in OkCallsOf(key, "mapK") :
       /\ backendCalls[key][i].page = cuda_pagemap[key][1]
       /\ bound[backendCalls[key][i].addr] = cuda_pagemap[key][1]
       /\ backendCalls[key][i].addr \in access
       /\ \E j \in OkCallsOf(key, "accK") :
            backendCalls[key][j].addr = backendCalls[key][i].addr
  /\ \E i \in OkCallsOf(key, "mapV") :
       /\ backendCalls[key][i].page = cuda_pagemap[key][2]
       /\ bound[backendCalls[key][i].addr] = cuda_pagemap[key][2]
       /\ backendCalls[key][i].addr \in access
       /\ \E j \in OkCallsOf(key, "accV") :
            backendCalls[key][j].addr = backendCalls[key][i].addr

\* the four driver calls of a key's bind sequence have all succeeded
SequenceComplete(key) ==
  /\ OkCallsOf(key, "mapK") # {}
  /\ OkCallsOf(key, "mapV") # {}
  /\ OkCallsOf(key, "accK") # {}
  /\ OkCallsOf(key, "accV") # {}

\* a failed bind or grant halts the process with the table as it was
FailureIsFatal ==
  \A key \in Keys :
    (Len(backendCalls'[key]) > Len(backendCalls[key])
     /\ ~backendCalls'[key][Len(backendCalls'[key])].ok) =>
      (halted' /\ cuda_pagemap' = cuda_pagemap)

\* C15 as the spec states it: a failed bind or grant halts the process and
\* records nothing; in every reachable state that is not halted each entry is
\* backed by its two binds and grants, and only a key whose bind sequence
\* completed has an entry.
C15_EntriesBackedAlways ==
  /\ [][FailureIsFatal]_vars
  /\ [](~halted =>
          \A key \in DOMAIN cuda_pagemap : SequenceComplete(key) /\ EntryBacked(key))

\* C15, amended: the same, for every state that is not halted and in which
\* the cleanup has not begun; the unmap loop of the cleanup removes the binds
\* of entries that stay in the table until the loop is over.
C15_EntriesBackedUntilCleanup ==
  /\ [][FailureIsFatal]_vars
  /\ []((~halted /\ tdRuns = 0) =>
          \A key \in DOMAIN cuda_pagemap : SequenceComplete(key) /\ EntryBacked(key))
  /\ [](\A key \in DOMAIN cuda_pagemap : SequenceComplete(key))

\* C15 witness: with one entry recorded and backed, a later call's value-side
\* bind failed and the process halted without an entry for that call's key
C15_Witness ==
  /\ halted
  /\ tdRuns = 0
  /\ \E key \in DOMAIN cuda_pagemap : EntryBacked(key)
  /\ \E t \in Threads :
       /\ pc[t] = "mapV"
       /\ KeyOfArgs(args[t]) \notin DOMAIN cuda_pagemap
       /\ OkCallsOf(KeyOfArgs(args[t]), "mapK") # {}
       /\ \E i \in CallsOf(KeyOfArgs(args[t]), "mapV") :
            ~backendCalls[KeyOfArgs(args[t])][i].ok

\* C16: under fair scheduling every call that has begun returns or the process
\* halts; every return, the early one for a recorded key included, leaves the
\* mutex free, so no thread waits at the lock forever while the process runs.
C16_EveryCallEnds ==
  /\ \A t \in Threads : (pc[t] # "idle") ~> (pc[t] = "idle" \/ halted)
  /\ [][\A t \in Threads :
          (pc[t] # "idle" /\ pc'[t] = "idle") => memory_mapping_mutex' = NoThread]_vars

\* C16 witness: two overlapping, identical calls have both returned, the
\* second by the early return for the recorded key, and the mutex is free
C16_Witness ==
  /\ ~halted
  /\ overlap
  /\ ncalls >= 2
  /\ \A t \in Threads : pc[t] = "idle"
  /\ Cardinality(doneLog) = 1
  /\ Cardinality(DOMAIN cuda_pagemap) = 1
  /\ memory_mapping_mutex = NoThread

\* the addresses at which map bound the pages of a key
BoundAddrs(key) ==
  {backendCalls[key][i].addr : i \in OkCallsOf(key, "mapK") \cup OkCallsOf(key, "mapV")}

\* C17: once the unmap loop is over, each address map bound for an entry has
\* been passed to unmap, whatever bases the caller gave to map (stated for the
\* entries whose layer the cleanup can look up), and every address passed to
\* unmap is one that map bound.
C17_UnmapsWhatWasBound ==
  UnmapOver =>
    /\ \A key \in Visitable : \A a \in BoundAddrs(key) : Attempted("unmap", a)
    /\ \A i \in UnmapCalls :
         \E key \in DOMAIN tdSnap.pagemap : trace[i].at \in BoundAddrs(key)

\* a thread is at the validations with the key of an existing entry
RepeatAtCheck(t) == pc[t] = "chk" /\ KeyOfArgs(args[t]) \in DOMAIN cuda_pagemap

\* the step is the thread's own: no other thread moved and init did not run
OwnStep(t) ==
  /\ \A u \in Threads \ {t} : pc'[u] = pc[u]
  /\ initLog' = initLog

\* C18: the validations come before the duplicate check: the step of a
\* repeated call for a recorded key halts the process, with the thread still
\* inside the call, when a page handle or a base is null or the offset is
\* misaligned, and is a no-op return only when the arguments pass.
C18_ValidationsBeforeDuplicateCheck ==
  [][\A t \in Threads :
       (RepeatAtCheck(t) /\ OwnStep(t)) =>
         IF HandlesValid(args[t]) /\ PointersValid(args[t]) /\ Aligned(args[t], PageSize)
         THEN /\ ~halted'
              /\ pc'[t] = "idle"
              /\ MapEffectFree
         ELSE /\ halted'
              /\ pc'[t] = "chk"
              /\ memory_mapping_mutex' = t
              /\ doneLog' = doneLog]_vars

\* C18 witness: a repeated call for a recorded key with a null base has halted
\* the process at the validations; its page handles were valid
C18_Witness ==
  /\ halted
  /\ \E t \in Threads :
       /\ RepeatAtCheck(t)
       /\ HandlesValid(args[t])
       /\ ~PointersValid(args[t])

\* the release calls of the current cleanup run for handle h
ReleaseCalls(h) == {i \in 1..Len(trace) : trace[i].op = "release" /\ trace[i].at = h}

\* C19: no step of a cleanup changes the pool: while it runs and when it has
\* returned the pool starts with the handles it held when the cleanup began, in
\* their order; a reserve after a cleanup whose target is at most the pool size
\* creates nothing and returns that size; a later cleanup begins with every
\* handle that was released before still in the pool, and releases each handle
\* of the pool once more.
C19_PoolSurvivesCleanup ==
  /\ [][(tdPc # "idle" \/ tdPc' # "idle") => cuda_pages' = cuda_pages]_vars
  /\ [](tdRuns > 0 =>
          /\ Len(cuda_pages) >= Len(tdSnap.pages)
          /\ SubSeq(cuda_pages, 1, Len(tdSnap.pages)) = tdSnap.pages
          /\ tdPc # "idle" => cuda_pages = tdSnap.pages)
  /\ []((reserveLog.returned /\ reserveLog.runs > 0
          /\ reserveLog.target <= reserveLog.before) =>
           (reserveLog.created = 0 /\ reserveLog.ret = reserveLog.before))
  /\ [][(tdPc = "idle" /\ tdPc' = "unmap") =>
          \A h \in 1..Len(released) :
            released[h] > 0 => (h <= Len(tdSnap'.pages) /\ tdSnap'.pages[h] = h)]_vars
  /\ [](ReleaseOver =>
          \A i \in 1..Len(tdSnap.pages) :
            Cardinality(ReleaseCalls(tdSnap.pages[i])) = 1)

\* C19 witness: after a first cleanup a reserve with a target within the pool
\* size created nothing, and a second cleanup has released the first handle
\* a second time
C19_Witness ==
  /\ ~halted
  /\ tdRuns = 2
  /\ ReleaseOver
  /\ reserveLog.returned
  /\ reserveLog.runs = 1
  /\ reserveLog.before > 0
  /\ reserveLog.target <= reserveLog.before
  /\ reserveLog.created = 0
  /\ released[1] = 2
  /\ Cardinality(ReleaseCalls(1)) = 1

\* the address a thread at a bind step is about to bind
NextBindAddr(t) ==
  IF pc[t] = "mapK"
  THEN args[t].kcache_ptr + args[t].req_offset
  ELSE args[t].vcache_ptr + args[t].req_offset

\* C20: a call whose key is new passes the duplicate check whatever slot its
\* bases and offset name; its bind of a slot that is already bound is refused
\* and halts the process with the table and the slot as they were; so in every
\* state that is not halted no two entries of the table were bound at a common
\* address.
C20_NoSharedSlot ==
  /\ [](~halted =>
          \A k1 \in DOMAIN cuda_pagemap, k2 \in DOMAIN cuda_pagemap :
            k1 # k2 => BoundAddrs(k1) \cap BoundAddrs(k2) = {})
  /\ [][\A t \in Threads :
          (pc[t] \in {"mapK", "mapV"} /\ bound[NextBindAddr(t)] # 0 /\ OwnStep(t)) =>
            /\ halted'
            /\ pc'[t] = pc[t]
            /\ cuda_pagemap' = cuda_pagemap
            /\ bound' = bound]_vars

\* C20 witness: a call with another reqId and the bases and offset of an
\* existing entry got past the duplicate check, and its key-side bind of the
\* occupied slot was refused and halted the process
C20_Witness ==
  /\ halted
  /\ \E t \in Threads :
       /\ pc[t] = "mapK"
       /\ KeyOfArgs(args[t]) \notin DOMAIN cuda_pagemap
       /\ Len(backendCalls[KeyOfArgs(args[t])]) = 1
       /\ ~backendCalls[KeyOfArgs(args[t])][1].ok
       /\ \E key \in DOMAIN cuda_pagemap :
            /\ key[1] # args[t].reqId
            /\ key[2] = args[t].req_offset
            /\ key[3] = args[t].layer_idx
            /\ BoundAddrs(key) =
                 {args[t].kcache_ptr + args[t].req_offset,
                  args[t].vcache_ptr + args[t].req_offset}

====
